---- MODULE Spec2Model ----
(***************************************************************************)
(* Case-number allocation and medicine dosage of the ABC Program           *)
(* Management backend.                                                     *)
(*                                                                         *)
(* Strings are sequences of one-character strings, so that formatting,     *)
(* prefix matching, splitting and integer parsing are computed the way the *)
(* Python code computes them.                                              *)
(*                                                                         *)
(* Time is a record [y, m, part]: the year, the month and the part of the  *)
(* month ("first" = its first hours, "mid", "last" = its last hours).      *)
(* The parts are the classes of instants that the code can tell apart: the *)
(* server's local clock and the UTC clock disagree about the month only    *)
(* within a UTC offset of a month boundary.                                *)
(***************************************************************************)
EXTENDS Integers, Sequences, FiniteSets, TLC

VARIABLES
    cases,      \* db.cases: the persisted case documents, in insertion order
    clock,      \* the current UTC instant
    tz,         \* sign of the server's UTC offset (local = UTC + offset)
    reqs,       \* the requests in flight: position and handler locals
    issued,     \* history: every case_number ever inserted into db.cases
    probe,      \* formatter harness: inputs and outputs of one format/parse
    protocol,   \* the module-level dict MEDICINE_PROTOCOL
    medicines,  \* db.medicines: the medicine documents, in insertion order
    medicine_logs, \* db.medicine_logs: the stock movements, in insertion order
    calc,       \* dosage harness: inputs and output of one dosage call
    resp,       \* POST /calculate-medicines: the request in flight (status 0)
                \* or the last response
    care,       \* db.cases: what the later stages wrote on a case document
                \* (status, initial_observation, surgery, release), by case id
    kennels,    \* db.kennels: the kennel documents, by kennel_number
    results,    \* what the bulk-upload row handled last added to 'results'
    replies     \* the last answer to each process's observation, surgery or
                \* release request

doseVars == <<protocol, medicines, medicine_logs, calc, resp>>

opsVars == <<care, kennels, results, replies>>

vars == <<cases, clock, tz, reqs, issued, probe,
          protocol, medicines, medicine_logs, calc, resp,
          care, kennels, results, replies>>

(***************************************************************************)
(* Bounds                                                                  *)
(***************************************************************************)
NumProcs == 2       \* concurrent requests
MaxCases == 2       \* documents in db.cases
MaxIssued == 3      \* distinct case numbers inserted over a run
MaxTicks == 2       \* instants visited after the last hours of a December
MaxYears == 1       \* years visited after the first one
MaxProbeSeq == 10001 \* sequences given to the formatter harness

Procs == 1..NumProcs

(***************************************************************************)
(* Characters and integer formatting                                       *)
(***************************************************************************)
DigitChars == <<"0", "1", "2", "3", "4", "5", "6", "7", "8", "9">>

Letters == {"A", "B", "C", "D", "E", "F", "G", "H", "I", "J", "K", "L", "M",
            "N", "O", "P", "Q", "R", "S", "T", "U", "V", "W", "X", "Y", "Z"}

DigitSet == {DigitChars[i] : i \in 1..10}

IsDigit(c) == c \in DigitSet

DigitValues == [c \in DigitSet |-> (CHOOSE i \in 1..10 : DigitChars[i] = c) - 1]

DigitVal(c) == DigitValues[c]

\* str.isalpha() of one character
isalpha(c) == c \in Letters

\* the decimal digits of a non-negative integer
RECURSIVE IntToStr(_)
IntToStr(n) ==
    IF n < 10 THEN <<DigitChars[n + 1]>>
    ELSE IntToStr(n \div 10) \o <<DigitChars[(n % 10) + 1]>>

RECURSIVE ZeroPad(_, _)
ZeroPad(s, width) == IF Len(s) >= width THEN s ELSE ZeroPad(<<"0">> \o s, width)

\* variant: the field keeps its four low digits
Format04d_truncating(sequence) == ZeroPad(IntToStr(sequence % 10000), 4)

\* f"{sequence:04d}": a minimum width, never a truncation
Format04d(sequence) == ZeroPad(IntToStr(sequence), 4)

\* calendar.month_abbr, in upper case
MonthAbbrs ==
    << <<"J","A","N">>, <<"F","E","B">>, <<"M","A","R">>, <<"A","P","R">>,
       <<"M","A","Y">>, <<"J","U","N">>, <<"J","U","L">>, <<"A","U","G">>,
       <<"S","E","P">>, <<"O","C","T">>, <<"N","O","V">>, <<"D","E","C">> >>

\* calendar.month_abbr[month].upper()[:3]
month_abbr(month) == MonthAbbrs[month]

generate_case_number(org, proj, month, sequence, case_type) ==
    org \o <<"-">> \o proj \o <<"-">> \o month_abbr(month) \o <<"-">>
        \o case_type \o Format04d(sequence)

(***************************************************************************)
(* Parsing, as get_next_case_number does it                                *)
(***************************************************************************)
Tail_n(s, n) == SubSeq(s, n + 1, Len(s))

HasPrefix(s, prefix) ==
    /\ Len(s) >= Len(prefix)
    /\ SubSeq(s, 1, Len(prefix)) = prefix

\* s.split("-")[-1]: what follows the last "-", the whole string without one
LastSegment(s) ==
    LET dashes == {i \in 1..Len(s) : s[i] = "-"}
    IN  IF dashes = {} THEN s
        ELSE Tail_n(s, CHOOSE i \in dashes : \A j \in dashes : j <= i)

\* str.strip() of blanks
RECURSIVE Strip(_)
Strip(s) ==
    IF s = <<>> THEN s
    ELSE IF s[1] = " " THEN Strip(Tail(s))
    ELSE IF s[Len(s)] = " " THEN Strip(SubSeq(s, 1, Len(s) - 1))
    ELSE s

RECURSIVE DigitsValue(_, _)
DigitsValue(s, acc) ==
    IF s = <<>> THEN acc
    ELSE IF s[1] = "_" THEN DigitsValue(Tail(s), acc)
    ELSE DigitsValue(Tail(s), acc * 10 + DigitVal(s[1]))

\* int(s): <<value>>, or <<>> where Python raises ValueError.  Python accepts
\* surrounding blanks, one sign, and single underscores between digits.
py_int(s) ==
    LET t == Strip(s)
        signed == t # <<>> /\ t[1] \in {"+", "-"}
        body == IF signed THEN Tail(t) ELSE t
        wellformed ==
            /\ body # <<>>
            /\ \A i \in 1..Len(body) : IsDigit(body[i]) \/ body[i] = "_"
            /\ IsDigit(body[1])
            /\ IsDigit(body[Len(body)])
            /\ \A i \in 1..(Len(body) - 1) : ~(body[i] = "_" /\ body[i + 1] = "_")
    IN  IF ~wellformed THEN <<>>
        ELSE IF signed /\ t[1] = "-" THEN <<0 - DigitsValue(body, 0)>>
        ELSE <<DigitsValue(body, 0)>>

\* variant: the slice that drops the type letter starts one character late
parse_sequence_skipping_two(case_number) ==
    LET seq_str == LastSegment(case_number)
    IN  IF seq_str = <<>> THEN <<>>
        ELSE py_int(IF isalpha(seq_str[1]) THEN Tail_n(seq_str, 2) ELSE seq_str)

\* The body of the try block for one document: <<sequence>>, or <<>> when the
\* IndexError or ValueError is caught and the document skipped.
parse_sequence(case_number) ==
    LET seq_str == LastSegment(case_number)
    IN  IF seq_str = <<>> THEN <<>>
        ELSE py_int(IF isalpha(seq_str[1]) THEN Tail(seq_str) ELSE seq_str)

RECURSIVE SeqMax(_)
SeqMax(s) ==
    IF Len(s) = 1 THEN s[1]
    ELSE LET m == SeqMax(Tail(s)) IN IF s[1] >= m THEN s[1] ELSE m

RECURSIVE extract_sequences(_)
extract_sequences(found) ==
    IF found = <<>> THEN <<>>
    ELSE parse_sequence(found[1].case_number) \o extract_sequences(Tail(found))

\* variant: the smallest sequence that no document carries
next_sequence_fill_gaps(found) ==
    LET sequences == extract_sequences(found)
        used == {sequences[i] : i \in 1..Len(sequences)}
    IN  CHOOSE n \in 1..(Len(sequences) + 1) : n \notin used /\ \A k \in 1..(n - 1) : k \in used

next_sequence(found) ==
    IF found = <<>> THEN 1
    ELSE LET sequences == extract_sequences(found)
         IN  IF sequences # <<>> THEN SeqMax(sequences) + 1 ELSE 1

(***************************************************************************)
(* Time                                                                    *)
(***************************************************************************)
MonthIndex(y, m) == y * 12 + (m - 1)

\* datetime.now(): the server's local wall clock at UTC instant t
LocalNow(t) ==
    LET shift == IF tz > 0 /\ t.part = "last" THEN 1
                 ELSE IF tz < 0 /\ t.part = "first" THEN 0 - 1
                 ELSE 0
        idx == MonthIndex(t.y, t.m) + shift
    IN  [y |-> idx \div 12, m |-> (idx % 12) + 1]

\* the instant that follows t
NextInstant(t) ==
    IF t.part = "first" THEN [t EXCEPT !.part = "mid"]
    ELSE IF t.part = "mid" THEN [t EXCEPT !.part = "last"]
    ELSE IF t.m = 12 THEN [y |-> t.y + 1, m |-> 1, part |-> "first"]
    ELSE [y |-> t.y, m |-> t.m + 1, part |-> "first"]

\* the same instant of the next year
NextYear(t) == [t EXCEPT !.y = t.y + 1]

Parts == {"first", "mid", "last"}
PartIndex(part) == IF part = "first" THEN 0 ELSE IF part = "mid" THEN 1 ELSE 2

StartInstant == [y |-> 2025, m |-> 12, part |-> "last"]

\* instants are ordered as their tick numbers are (three ticks a month)
TickOf(t) == 3 * MonthIndex(t.y - StartInstant.y, t.m) + PartIndex(t.part)

\* the instants visited: the last hours of December and the MaxTicks instants
\* after them, of the first year and of the MaxYears years after it
InWindow(t) ==
    LET d == TickOf(t) - TickOf(StartInstant)
    IN  d >= 0 /\ d \div 36 <= MaxYears /\ d % 36 <= MaxTicks

Instants ==
    {t \in [y : StartInstant.y..(StartInstant.y + MaxYears + 1), m : 1..12, part : Parts] :
        InWindow(t)}

\* datetime.now(timezone.utc).isoformat(), as far as any comparison reads it:
\* the year and the month
created_at_of(t) == [y |-> t.y, m |-> t.m]

\* created_at >= datetime(current_year, current_month, 1).isoformat(): the two
\* ISO strings compare as their (year, month) do, the created_at string being
\* the longer one on a tie
created_since(created_at, current_year, current_month) ==
    MonthIndex(created_at.y, created_at.m) >= MonthIndex(current_year, current_month)

(***************************************************************************)
(* The allocator                                                           *)
(***************************************************************************)
org_shortcode == <<"J", "S">>
project_code == <<"T", "A", "L">>
TypeC == <<"C">>
TypeS == <<"S">>

\* variant: the pattern stops before the record type
case_pattern_no_type(org, proj, abbr_month, case_type) ==
    org \o <<"-">> \o proj \o <<"-">> \o month_abbr(abbr_month) \o <<"-">>

case_pattern(org, proj, abbr_month, case_type) ==
    org \o <<"-">> \o proj \o <<"-">> \o month_abbr(abbr_month) \o <<"-">> \o case_type

\* variant: the pattern matches the three letters of any month
find_cases_any_month(db_cases, pattern, current_year, current_month) ==
    SelectSeq(db_cases, LAMBDA c :
        /\ Len(c.case_number) >= Len(pattern)
        /\ \A i \in 1..Len(pattern) :
               \/ i \in (Len(pattern) - 4)..(Len(pattern) - 2)
               \/ c.case_number[i] = pattern[i]
        /\ created_since(c.created_at, current_year, current_month))

\* db.cases.find({"case_number": {"$regex": pattern}, "created_at": {"$gte": ...}})
find_cases(db_cases, pattern, current_year, current_month) ==
    SelectSeq(db_cases, LAMBDA c :
        /\ HasPrefix(c.case_number, pattern)
        /\ created_since(c.created_at, current_year, current_month))

\* reads == [month, year, abbr]: the three datetime.now() readings, in the
\* order the code takes them
get_next_case_number(db_cases, reads, org, proj, case_type) ==
    LET current_month == reads.month.m
        current_year == reads.year.y
        pattern == case_pattern(org, proj, reads.abbr.m, case_type)
        found == find_cases(db_cases, pattern, current_year, current_month)
    IN  generate_case_number(org, proj, current_month, next_sequence(found), case_type)

\* the readings of a call that runs within instant t
ReadsAt(t) == [month |-> LocalNow(t), year |-> LocalNow(t), abbr |-> LocalNow(t)]

\* the readings a call can take that starts at instant t and ends at instant u
\* (u = t, or the instant after t)
Readings(t, u) ==
    {[month |-> LocalNow(t), year |-> LocalNow(v), abbr |-> LocalNow(u)] : v \in {t, u}}

(***************************************************************************)
(* Inputs: the 'case number' cells of an uploaded sheet                    *)
(***************************************************************************)
JsTal == <<"J", "S", "-", "T", "A", "L", "-">>

BulkNumbers ==
    { JsTal \o <<"J","A","N","-","C","0","0","0","3">>,          \* well formed
      JsTal \o <<"J","A","N","-","C","0","0","-","0","7">>,      \* extra separator
      <<"J","A","P","P","-","0","0","1","-","2","0","2","4">> }  \* the template's sample

Idle == [pc |-> "idle", case_number |-> <<>>]
ProbeOff == [pc |-> "off", month |-> 1, sequence |-> 1, case_type |-> TypeC,
             text |-> <<>>, parsed |-> <<>>]

(***************************************************************************)
(* Medicine dosage                                                         *)
(*                                                                         *)
(* Weights and doses are Python numbers.  They are modelled in fixed point *)
(* as integers that count 1/Unit: a weight is a multiple of 1/WeightStep   *)
(* kg, a base dose a multiple of 1/100, so that base * weight / 10 and the *)
(* roundings are exact.                                                    *)
(***************************************************************************)
WeightStep == 8     \* weights are multiples of 1/WeightStep kg
MaxWeightKg == 32   \* weights range over -MaxWeightKg .. MaxWeightKg kg
MaxStockPacks == 1  \* packs added to the stock of one medicine

Unit == 100 * WeightStep

\* the number whole + hundredths/100
Num(whole, hundredths) == whole * Unit + hundredths * WeightStep

\* the weight of k steps of 1/WeightStep kg
Kg(k) == k * 100

\* the weight of n whole kg
KgOf(n) == Kg(n * WeightStep)

Weights == {Kg(k) : k \in (0 - MaxWeightKg * WeightStep)..(MaxWeightKg * WeightStep)}

Min(a, b) == IF a <= b THEN a ELSE b

\* variant: int(n / d), the fraction cut off
py_round_truncating(n, d) ==
    IF n >= 0 THEN n \div d ELSE 0 - ((0 - n) \div d)

\* Python's round(n / d) for d > 0: the nearest integer, a tie going to the
\* even one
py_round(n, d) ==
    LET q == n \div d
        r == n % d
    IN  IF 2 * r < d THEN q
        ELSE IF 2 * r > d THEN q + 1
        ELSE IF q % 2 = 0 THEN q ELSE q + 1

\* one entry of MEDICINE_PROTOCOL; protocol.get(key) of a key that the entry
\* does not have is falsy, like FALSE for a flag and 0 for "max"
Rule(base_dose, unit, keys, max) ==
    [base_dose |-> base_dose, unit |-> unit, max |-> max,
     fixed |-> "fixed" \in keys, per_10kg |-> "per_10kg" \in keys,
     round_half |-> "round_half" \in keys, round_50 |-> "round_50" \in keys,
     round_5 |-> "round_5" \in keys, female_only |-> "female_only" \in keys]

MEDICINE_PROTOCOL ==
    "Anti-Rabies Vaccine" :> Rule(Num(1, 0), "Ml", {"fixed"}, 0) @@
    "Xylazine" :> Rule(Num(1, 0), "Ml", {"per_10kg"}, 0) @@
    "Melonex" :> Rule(Num(0, 80), "Ml", {"per_10kg"}, Num(1, 0)) @@
    "Atropine" :> Rule(Num(1, 0), "Ml", {"per_10kg", "round_half"}, 0) @@
    "Diazepam" :> Rule(Num(0, 0), "Ml", {"per_10kg"}, 0) @@
    "Prednisolone" :> Rule(Num(0, 0), "Ml", {"per_10kg"}, 0) @@
    "Ketamine" :> Rule(Num(3, 0), "Ml", {"per_10kg", "round_half"}, 0) @@
    "Tribivet" :> Rule(Num(1, 0), "Ml", {"fixed"}, 0) @@
    "Intacef Tazo" :> Rule(Num(400, 0), "Mg", {"per_10kg", "round_50"}, 0) @@
    "Adrenaline" :> Rule(Num(0, 0), "Ml", {"per_10kg"}, 0) @@
    "Alu Spray" :> Rule(Num(2, 0), "Ml", {"per_10kg", "round_half"}, 0) @@
    "Ethamsylate" :> Rule(Num(1, 0), "Ml", {"per_10kg", "round_half"}, 0) @@
    "Tincture" :> Rule(Num(20, 0), "Ml", {"per_10kg", "round_5"}, 0) @@
    "Avil" :> Rule(Num(1, 0), "Ml", {"fixed"}, 0) @@
    "Vicryl 1" :> Rule(Num(0, 20), "Pcs", {"fixed"}, 0) @@
    "Catgut" :> Rule(Num(0, 20), "Pcs", {"fixed"}, 0) @@
    "Vicryl 2" :> Rule(Num(0, 20), "Pcs", {"female_only"}, 0) @@
    "Metronidazole" :> Rule(Num(50, 0), "Ml", {"fixed"}, 0)

\* the steps of 1/WeightStep kg in a weight
Steps(weight) == weight \div (Unit \div WeightStep)

\* variant: base * weight // 10, the floor division
per_10kg_dose_floor(base, weight) ==
    (((base * Steps(weight)) \div (10 * WeightStep)) \div Unit) * Unit

\* dose = base * weight / 10 (the weight counted in steps, which keeps the
\* product within TLC's integers)
per_10kg_dose(base, weight) == (base * Steps(weight)) \div (10 * WeightStep)

\* variant: the cap is never applied
apply_max_ignored(dose, max) == dose

\* if protocol.get("max"): dose = min(dose, protocol["max"])
apply_max(dose, max) == IF max # 0 THEN Min(dose, max) ELSE dose

\* variant: the dose itself is handed to round()
round_operand_unscaled(dose, rule) ==
    IF rule.round_half \/ rule.round_50 \/ rule.round_5
    THEN [n |-> dose, d |-> Unit, step |-> Unit]
    ELSE [n |-> dose, d |-> 1, step |-> 1]

\* the if / elif chain of the three rounding flags: the value n/d handed to
\* round() (dose * 2, dose / 50, dose / 5), and the step that the rounded
\* value is multiplied by (1/2, 50, 5); without a flag the dose stays
round_operand(dose, rule) ==
    IF rule.round_half THEN [n |-> dose * 2, d |-> Unit, step |-> Unit \div 2]
    ELSE IF rule.round_50 THEN [n |-> dose, d |-> 50 * Unit, step |-> 50 * Unit]
    ELSE IF rule.round_5 THEN [n |-> dose, d |-> 5 * Unit, step |-> 5 * Unit]
    ELSE [n |-> dose, d |-> 1, step |-> 1]

apply_rounding(dose, rule) ==
    LET v == round_operand(dose, rule)
    IN  py_round(v.n, v.d) * v.step

\* variant: the female_only flag is not looked at
rule_dose_unisex(rule, weight, gender) ==
    LET base == rule.base_dose
    IN  IF rule.fixed THEN base
        ELSE IF rule.per_10kg
             THEN apply_rounding(apply_max(per_10kg_dose(base, weight), rule.max), rule)
        ELSE base

\* variant: a fixed dose is scaled by the weight like the others
rule_dose_scaling_fixed(rule, weight, gender) ==
    LET base == rule.base_dose
    IN  IF rule.female_only /\ gender # "Female" THEN 0
        ELSE IF rule.fixed \/ rule.per_10kg
             THEN apply_rounding(apply_max(per_10kg_dose(base, weight), rule.max), rule)
        ELSE base

\* variant: a sex-restricted rule answers -1 for "not applicable"
rule_dose_not_applicable(rule, weight, gender) ==
    LET base == rule.base_dose
    IN  IF rule.female_only /\ gender # "Female" THEN 0 - Unit
        ELSE IF rule.fixed THEN base
        ELSE IF rule.per_10kg
             THEN apply_rounding(apply_max(per_10kg_dose(base, weight), rule.max), rule)
        ELSE base

\* the rule of a name that is in the table
rule_dose(rule, weight, gender) ==
    LET base == rule.base_dose
    IN  IF rule.female_only /\ gender # "Female" THEN 0
        ELSE IF rule.fixed THEN base
        ELSE IF rule.per_10kg
             THEN apply_rounding(apply_max(per_10kg_dose(base, weight), rule.max),
                                 rule)
        ELSE base

\* variant: a name that the table does not have gets a default fixed rule
calculate_medicine_dosage_default_rule(table, weight, medicine_name, gender) ==
    IF medicine_name \notin DOMAIN table
    THEN rule_dose(Rule(Num(1, 0), "Ml", {"fixed"}, 0), weight, gender)
    ELSE rule_dose(table[medicine_name], weight, gender)

\* calculate_medicine_dosage(weight, medicine_name, gender), reading the
\* module's table
calculate_medicine_dosage(table, weight, medicine_name, gender) ==
    IF medicine_name \notin DOMAIN table THEN 0
    ELSE rule_dose(table[medicine_name], weight, gender)

\* gender as the callers pass it; NoGender is the default None
NoGender == "None"
Genders == {"Male", "Female", NoGender}

\* a drug name that the table does not have
Unobtainium == "Unobtainium"
DrugNames == DOMAIN MEDICINE_PROTOCOL \cup {Unobtainium}

\* the documents that startup inserts into an empty db.medicines
default_medicines ==
    << [name |-> "Anti-Rabies Vaccine", unit |-> "Ml", packing_size |-> 10],
       [name |-> "Xylazine", unit |-> "Ml", packing_size |-> 30],
       [name |-> "Melonex", unit |-> "Ml", packing_size |-> 100],
       [name |-> "Atropine", unit |-> "Ml", packing_size |-> 30],
       [name |-> "Diazepam", unit |-> "Ml", packing_size |-> 10],
       [name |-> "Prednisolone", unit |-> "Ml", packing_size |-> 10],
       [name |-> "Ketamine", unit |-> "Ml", packing_size |-> 5],
       [name |-> "Tribivet", unit |-> "Ml", packing_size |-> 100],
       [name |-> "Intacef Tazo", unit |-> "Mg", packing_size |-> 4500],
       [name |-> "Adrenaline", unit |-> "Ml", packing_size |-> 10],
       [name |-> "Alu Spray", unit |-> "Ml", packing_size |-> 100],
       [name |-> "Ethamsylate", unit |-> "Ml", packing_size |-> 30],
       [name |-> "Tincture", unit |-> "Ml", packing_size |-> 400],
       [name |-> "Avil", unit |-> "Ml", packing_size |-> 100],
       [name |-> "Vicryl 1", unit |-> "Pcs", packing_size |-> 12],
       [name |-> "Catgut", unit |-> "Pcs", packing_size |-> 12],
       [name |-> "Vicryl 2", unit |-> "Pcs", packing_size |-> 12],
       [name |-> "Metronidazole", unit |-> "Ml", packing_size |-> 100] >>

\* db.medicines after startup: every default medicine with no stock; the
\* uuid of a document is modelled by its position
medicine_docs ==
    [i \in 1..Len(default_medicines) |->
        [id |-> i, name |-> default_medicines[i].name,
         unit |-> default_medicines[i].unit,
         packing_size |-> default_medicines[i].packing_size,
         current_stock |-> 0]]

CalcOff == [pc |-> "off", weight |-> 0, medicine_name |-> Unobtainium,
            gender |-> NoGender, dose |-> 0]
NoResponse == [status |-> 0 - 1]

\* the dosage side at rest
DoseQuiet ==
    /\ protocol = MEDICINE_PROTOCOL
    /\ medicines = medicine_docs
    /\ medicine_logs = <<>>
    /\ calc = CalcOff
    /\ resp = NoResponse

(***************************************************************************)
(* Kennels, the later stages of a case, bulk-upload results                *)
(***************************************************************************)
\* max_kennels, shrunk
NumKennels == 1

\* a case's id is its place in db.cases; 0 is the current_case_id None of a
\* free kennel and the kennel_number None of an observation without a kennel
NoCase == 0
NoKennel == 0

\* POST /kennels/initialize: kennels 1..max_kennels, all free
initialize_kennels ==
    [k \in 1..NumKennels |-> [is_occupied |-> FALSE, current_case_id |-> NoCase]]

\* results = {"success": 0, "failed": 0, "errors": [], "medicines_deducted": {}}
NoResults ==
    [success |-> 0, failed |-> 0, errors |-> <<>>, medicines_deducted |-> <<>>]

\* one more failed row, with its error message
RowFailed(message) ==
    [success |-> 0, failed |-> 1, errors |-> <<message>>, medicines_deducted |-> <<>>]

\* one more row that went through
RowSucceeded(deducted) ==
    [success |-> 1, failed |-> 0, errors |-> <<>>, medicines_deducted |-> deducted]

\* kennels initialised, no case past catching, no bulk row handled
OpsQuiet ==
    /\ care = <<>>
    /\ kennels = initialize_kennels
    /\ results = NoResults
    /\ replies = [p \in Procs |-> NoResponse]

(***************************************************************************)
(* The server                                                              *)
(***************************************************************************)
Init ==
    /\ OpsQuiet
    /\ DoseQuiet
    /\ cases = <<>>
    /\ clock = StartInstant
    /\ tz \in {0 - 1, 0, 1}
    /\ reqs = [p \in Procs |-> Idle]
    /\ issued = {}
    /\ probe = ProbeOff

\* variant: the allocator reserves the number it returns
AllocateCaseNumber_reserving(p) ==
    /\ reqs[p].pc = "idle"
    /\ Len(cases) < MaxCases
    /\ clock' = clock
    /\ \E reads \in Readings(clock, clock) :
         LET number == get_next_case_number(cases, reads, org_shortcode, project_code, TypeC)
         IN  /\ reqs' = [reqs EXCEPT ![p] = [pc |-> "insert", case_number |-> number]]
             /\ cases' = Append(cases, [case_number |-> number,
                                        created_at |-> created_at_of(clock),
                                        bulk_uploaded |-> FALSE])
    /\ UNCHANGED <<tz, issued, probe>>
    /\ UNCHANGED doseVars
    /\ UNCHANGED opsVars

\* create_catching_record up to the return of get_next_case_number; the clock
\* may pass to the next instant between the call's readings of it
AllocateCaseNumber(p) ==
    /\ reqs[p].pc = "idle"
    /\ \E u \in {clock, NextInstant(clock)} :
         /\ InWindow(u)
         /\ clock' = u
         /\ \E reads \in Readings(clock, u) :
              reqs' = [reqs EXCEPT ![p] =
                  [pc |-> "insert",
                   case_number |-> get_next_case_number(cases, reads,
                                       org_shortcode, project_code, TypeC)]]
    /\ UNCHANGED <<cases, tz, issued, probe>>
    /\ UNCHANGED doseVars
    /\ UNCHANGED opsVars

\* create_catching_record from the construction of case_dict to the return
InsertCase(p) ==
    /\ reqs[p].pc = "insert"
    /\ Len(cases) < MaxCases
    /\ Cardinality(issued \cup {reqs[p].case_number}) <= MaxIssued
    /\ cases' = Append(cases, [case_number |-> reqs[p].case_number,
                               created_at |-> created_at_of(clock),
                               bulk_uploaded |-> FALSE])
    /\ issued' = issued \cup {reqs[p].case_number}
    /\ reqs' = [reqs EXCEPT ![p] = Idle]
    /\ UNCHANGED <<clock, tz, probe>>
    /\ UNCHANGED doseVars
    /\ UNCHANGED opsVars

\* variant: the row is not looked up in the store
BulkCheckRow_unchecked(p, number) ==
    /\ reqs[p].pc = "idle"
    /\ reqs' = [reqs EXCEPT ![p] =
         IF number = <<>> THEN Idle
         ELSE [pc |-> "bulk_insert", case_number |-> number]]
    /\ results' =
         IF number = <<>> THEN RowFailed(<<"Missing case number">>) ELSE results
    /\ UNCHANGED <<cases, clock, tz, issued, probe>>
    /\ UNCHANGED doseVars
    /\ UNCHANGED <<care, kennels, replies>>

\* bulk_upload_catching, one row up to the existence check: a row without a
\* case number, or with one that a stored case has, is counted as failed
BulkCheckRow(p, number) ==
    /\ reqs[p].pc = "idle"
    /\ reqs' = [reqs EXCEPT ![p] =
         IF number = <<>> THEN Idle
         ELSE IF \E i \in 1..Len(cases) : cases[i].case_number = number THEN Idle
         ELSE [pc |-> "bulk_insert", case_number |-> number]]
    /\ results' =
         IF number = <<>> THEN RowFailed(<<"Missing case number">>)
         ELSE IF \E i \in 1..Len(cases) : cases[i].case_number = number
              THEN RowFailed(<<"Case", number, "already exists">>)
         ELSE results
    /\ UNCHANGED <<cases, clock, tz, issued, probe>>
    /\ UNCHANGED doseVars
    /\ UNCHANGED <<care, kennels, replies>>

\* bulk_upload_catching, the rest of a row that passed the checks
BulkInsertRow(p) ==
    /\ reqs[p].pc = "bulk_insert"
    /\ Len(cases) < MaxCases
    /\ Cardinality(issued \cup {reqs[p].case_number}) <= MaxIssued
    /\ cases' = Append(cases, [case_number |-> reqs[p].case_number,
                               created_at |-> created_at_of(clock),
                               bulk_uploaded |-> TRUE])
    /\ issued' = issued \cup {reqs[p].case_number}
    /\ reqs' = [reqs EXCEPT ![p] = Idle]
    /\ results' = RowSucceeded(<<>>)
    /\ UNCHANGED <<clock, tz, probe>>
    /\ UNCHANGED doseVars
    /\ UNCHANGED <<care, kennels, replies>>

\* a case document is removed from the store (a manual edit of the data)
DeleteCase(i) ==
    /\ i \in 1..Len(cases)
    /\ cases' = SubSeq(cases, 1, i - 1) \o SubSeq(cases, i + 1, Len(cases))
    /\ UNCHANGED <<clock, tz, reqs, issued, probe>>
    /\ UNCHANGED doseVars
    /\ UNCHANGED opsVars

\* time passes: to the next instant, or by a year
Tick ==
    /\ \E u \in {NextInstant(clock), NextYear(clock)} :
         /\ InWindow(u)
         /\ clock' = u
    /\ UNCHANGED <<cases, tz, reqs, issued, probe>>
    /\ UNCHANGED doseVars
    /\ UNCHANGED opsVars

Next ==
    \/ \E p \in Procs : AllocateCaseNumber(p)
    \/ \E p \in Procs : InsertCase(p)
    \/ \E p \in Procs : \E number \in BulkNumbers \cup {<<>>} : BulkCheckRow(p, number)
    \/ \E p \in Procs : BulkInsertRow(p)
    \/ Tick

Spec == Init /\ [][Next]_vars

(***************************************************************************)
(* The store under manual edits: requests are served one after another,    *)
(* and stored cases may be deleted                                         *)
(***************************************************************************)
DeleteNext ==
    \/ AllocateCaseNumber(1)
    \/ InsertCase(1)
    \/ \E i \in 1..MaxCases : DeleteCase(i)
    \/ Tick

DeleteSpec == Init /\ [][DeleteNext]_vars

(***************************************************************************)
(* The allocator over snapshots: the store starts as any set of at most    *)
(* MaxCases documents that carry one of SnapshotNumbers and were created   *)
(* by an upload at an instant up to now; requests are served one after     *)
(* another                                                                 *)
(***************************************************************************)
SnapshotNumbers ==
    { JsTal \o <<"J","A","N","-","C","0","0","0","1">>,
      JsTal \o <<"J","A","N","-","C","0","0","0","3">>,      \* leaves a gap
      JsTal \o <<"J","A","N","-","C","X","X","X","X">>,      \* no digits
      JsTal \o <<"F","E","B","-","C","0","0","0","5">>,      \* another month
      JsTal \o <<"J","A","N","-","S","0","0","0","2">>,      \* another record type
      JsTal \o <<"J","A","N","-","C","9","9","9","9">> }     \* fills the 4-digit field

RecordsAt(t) ==
    {[case_number |-> n, created_at |-> created_at_of(u), bulk_uploaded |-> TRUE] :
        n \in SnapshotNumbers, u \in {v \in Instants : TickOf(v) <= TickOf(t)}}

RECURSIVE SubsetsUpTo(_, _)
SubsetsUpTo(R, k) ==
    IF k = 0 THEN {{}}
    ELSE LET smaller == SubsetsUpTo(R, k - 1)
         IN  smaller \cup {S \cup {r} : S \in smaller, r \in R}

RECURSIVE SetToSeq(_)
SetToSeq(S) ==
    IF S = {} THEN <<>>
    ELSE LET x == CHOOSE x \in S : TRUE IN <<x>> \o SetToSeq(S \ {x})

AllocInit ==
    /\ OpsQuiet
    /\ DoseQuiet
    /\ clock \in Instants
    /\ tz \in {0 - 1, 0, 1}
    /\ cases \in {SetToSeq(S) : S \in SubsetsUpTo(RecordsAt(clock), MaxCases)}
    /\ reqs = [p \in Procs |-> Idle]
    /\ issued = {cases[i].case_number : i \in 1..Len(cases)}
    /\ probe = ProbeOff

AllocNext ==
    \/ AllocateCaseNumber(1)
    \/ InsertCase(1)

AllocSpec == AllocInit /\ [][AllocNext]_vars

(***************************************************************************)
(* The formatter and the parser on their own                               *)
(***************************************************************************)
FormatInit ==
    /\ OpsQuiet
    /\ DoseQuiet
    /\ cases = <<>>
    /\ clock = StartInstant
    /\ tz = 0
    /\ reqs = [p \in Procs |-> Idle]
    /\ issued = {}
    /\ probe \in {[pc |-> "input", month |-> m, sequence |-> n, case_type |-> ty,
                   text |-> <<>>, parsed |-> <<>>] :
                     m \in 1..12, n \in 1..MaxProbeSeq, ty \in {TypeC, TypeS}}

ProbeFormat ==
    /\ probe.pc = "input"
    /\ probe' = [probe EXCEPT
         !.pc = "formatted",
         !.text = generate_case_number(org_shortcode, project_code, probe.month,
                                       probe.sequence, probe.case_type)]
    /\ UNCHANGED <<cases, clock, tz, reqs, issued>>
    /\ UNCHANGED doseVars
    /\ UNCHANGED opsVars

ProbeParse ==
    /\ probe.pc = "formatted"
    /\ probe' = [probe EXCEPT !.pc = "parsed", !.parsed = parse_sequence(probe.text)]
    /\ UNCHANGED <<cases, clock, tz, reqs, issued>>
    /\ UNCHANGED doseVars
    /\ UNCHANGED opsVars

FormatNext == ProbeFormat \/ ProbeParse

FormatSpec == FormatInit /\ [][FormatNext]_vars

(***************************************************************************)
(* The dosage calculator on its own                                        *)
(***************************************************************************)
DoseInit ==
    /\ OpsQuiet
    /\ cases = <<>>
    /\ clock = StartInstant
    /\ tz = 0
    /\ reqs = [p \in Procs |-> Idle]
    /\ issued = {}
    /\ probe = ProbeOff
    /\ protocol = MEDICINE_PROTOCOL
    /\ medicines = medicine_docs
    /\ medicine_logs = <<>>
    /\ resp = NoResponse
    /\ calc \in {[pc |-> "input", weight |-> w, medicine_name |-> name,
                  gender |-> g, dose |-> 0] :
                    w \in Weights, name \in DrugNames, g \in Genders}

ComputeDose ==
    /\ calc.pc = "input"
    /\ calc' = [calc EXCEPT
         !.pc = "done",
         !.dose = calculate_medicine_dosage(protocol, calc.weight,
                                            calc.medicine_name, calc.gender)]
    /\ UNCHANGED <<cases, clock, tz, reqs, issued, probe,
                   protocol, medicines, medicine_logs, resp>>
    /\ UNCHANGED opsVars

DoseNext == ComputeDose

DoseSpec == DoseInit /\ [][DoseNext]_vars

(***************************************************************************)
(* The medicine endpoints                                                  *)
(***************************************************************************)
caseVars == <<cases, clock, tz, reqs, issued, probe>>

\* a key that the request body does not have
Missing == <<>>

\* data.get(key, default)
data_get(field, default) == IF field = Missing THEN default ELSE field[1]

\* the body of a POST /calculate-medicines that has not been handled yet
CalcRequest(weight, gender) == [status |-> 0, weight |-> weight, gender |-> gender]

\* {m["name"]: m for m in medicines}: of two documents with one name the
\* later one stays
medicine_map(docs) ==
    [name \in {docs[i].name : i \in 1..Len(docs)} |->
        LET last == CHOOSE i \in 1..Len(docs) :
                        /\ docs[i].name = name
                        /\ \A j \in 1..Len(docs) : docs[j].name = name => j <= i
        IN  docs[last]]

\* the loop over MEDICINE_PROTOCOL.keys() that fills 'calculated'
calculated_medicines(table, docs, weight, gender) ==
    LET map == medicine_map(docs)
    IN  [med_name \in DOMAIN table \cap DOMAIN map |->
            LET dosage == calculate_medicine_dosage(table, weight, med_name, gender)
                med == map[med_name]
            IN  [medicine_id |-> med.id,
                 dosage |-> dosage,
                 unit |-> med.unit,
                 current_stock |-> med.current_stock,
                 sufficient_stock |-> med.current_stock >= dosage]]

WeightError == "Weight must be between 10-30 kg"

\* variant: the limits themselves are rejected
CalculateSurgeryMedicines_strict ==
    /\ resp.status = 0
    /\ LET weight == data_get(resp.weight, 0)
           gender == data_get(resp.gender, "Male")
       IN  resp' = IF weight <= KgOf(10) \/ weight >= KgOf(30)
                   THEN [status |-> 400, detail |-> WeightError]
                   ELSE [status |-> 200, weight |-> weight, gender |-> gender,
                         medicines |-> calculated_medicines(protocol, medicines,
                                                            weight, gender)]
    /\ UNCHANGED <<protocol, medicines, medicine_logs, calc>>
    /\ UNCHANGED caseVars
    /\ UNCHANGED opsVars

\* variant: the handler keeps the dose it computed as the rule's base_dose
CalculateSurgeryMedicines_adjusting_table ==
    /\ resp.status = 0
    /\ LET weight == data_get(resp.weight, 0)
           gender == data_get(resp.gender, "Male")
           calculated == calculated_medicines(protocol, medicines, weight, gender)
       IN  IF weight < KgOf(10) \/ weight > KgOf(30)
           THEN /\ resp' = [status |-> 400, detail |-> WeightError]
                /\ protocol' = protocol
           ELSE /\ resp' = [status |-> 200, weight |-> weight, gender |-> gender,
                            medicines |-> calculated]
                /\ protocol' = [name \in DOMAIN protocol |->
                                  IF name \in DOMAIN calculated
                                  THEN [protocol[name] EXCEPT
                                          !.base_dose = calculated[name].dosage]
                                  ELSE protocol[name]]
    /\ UNCHANGED <<medicines, medicine_logs, calc>>
    /\ UNCHANGED caseVars
    /\ UNCHANGED opsVars

\* calculate_surgery_medicines: POST /calculate-medicines
CalculateSurgeryMedicines ==
    /\ resp.status = 0
    /\ LET weight == data_get(resp.weight, 0)
           gender == data_get(resp.gender, "Male")
       IN  resp' = IF weight < KgOf(10) \/ weight > KgOf(30)
                   THEN [status |-> 400, detail |-> WeightError]
                   ELSE [status |-> 200, weight |-> weight, gender |-> gender,
                         medicines |-> calculated_medicines(protocol, medicines,
                                                            weight, gender)]
    /\ UNCHANGED <<protocol, medicines, medicine_logs, calc>>
    /\ UNCHANGED caseVars
    /\ UNCHANGED opsVars

\* a client posts a body to /calculate-medicines
SubmitCalculate(data) ==
    /\ resp.status # 0
    /\ resp' = data
    /\ UNCHANGED <<protocol, medicines, medicine_logs, calc>>
    /\ UNCHANGED caseVars
    /\ UNCHANGED opsVars

\* get_medicine_protocol: GET /medicine-protocol returns the table
GetMedicineProtocol == UNCHANGED vars

\* add_medicine_stock: POST /medicines/stock/add, quantity counted in packs
AddMedicineStock(medicine_id, quantity) ==
    LET found == {i \in 1..Len(medicines) : medicines[i].id = medicine_id}
    IN  IF found = {}
        THEN UNCHANGED vars         \* 404 Medicine not found
        ELSE LET i == CHOOSE i \in found : \A j \in found : i <= j
                 packing_size == medicines[i].packing_size
                 units_to_add == quantity * packing_size * Unit
             IN  /\ medicines[i].current_stock + units_to_add
                        <= MaxStockPacks * packing_size * Unit
                 /\ medicines' = [medicines EXCEPT
                        ![i].current_stock = @ + units_to_add]
                 /\ medicine_logs' = Append(medicine_logs,
                        [medicine_id |-> medicine_id, type |-> "restock",
                         packs_added |-> quantity, units_added |-> units_to_add])
                 /\ UNCHANGED <<protocol, calc, resp>>
                 /\ UNCHANGED caseVars
                 /\ UNCHANGED opsVars

\* reset_medicine_stock: GET /medicines/stock/reset
ResetMedicineStock ==
    /\ medicines' = [i \in 1..Len(medicines) |->
                        [medicines[i] EXCEPT !.current_stock = 0]]
    /\ medicine_logs' = <<>>
    /\ UNCHANGED <<protocol, calc, resp>>
    /\ UNCHANGED caseVars
    /\ UNCHANGED opsVars

(***************************************************************************)
(* POST /calculate-medicines over every request body                       *)
(***************************************************************************)
\* the medicines that the stock requests name: Xylazine, and no document
StockIds == {2, 0}
StockQuantities == {1}

CalcRequests ==
    {CalcRequest(w, g) :
        w \in {<<x>> : x \in Weights} \cup {Missing},
        g \in {<<"Male">>, <<"Female">>, Missing}}

CaseQuiet ==
    /\ cases = <<>>
    /\ clock = StartInstant
    /\ tz = 0
    /\ reqs = [p \in Procs |-> Idle]
    /\ issued = {}
    /\ probe = ProbeOff

CalcInit ==
    /\ OpsQuiet
    /\ CaseQuiet
    /\ protocol = MEDICINE_PROTOCOL
    /\ medicines = medicine_docs
    /\ medicine_logs = <<>>
    /\ calc = CalcOff
    /\ resp \in CalcRequests

CalcNext ==
    \/ CalculateSurgeryMedicines
    \/ \E id \in StockIds, quantity \in StockQuantities : AddMedicineStock(id, quantity)

CalcSpec == CalcInit /\ [][CalcNext]_vars

(***************************************************************************)
(* The medicine endpoints beside case creation                             *)
(***************************************************************************)
MedRequests ==
    {CalcRequest(w, g) :
        w \in {Missing, <<KgOf(10)>>, <<KgOf(17)>>, <<KgOf(30) + Kg(1)>>},
        g \in {Missing, <<"Female">>}}

MedInit ==
    /\ OpsQuiet
    /\ CaseQuiet
    /\ DoseQuiet

MedNext ==
    \/ \E data \in MedRequests : SubmitCalculate(data)
    \/ CalculateSurgeryMedicines
    \/ GetMedicineProtocol
    \/ \E id \in StockIds, quantity \in StockQuantities : AddMedicineStock(id, quantity)
    \/ ResetMedicineStock
    \/ AllocateCaseNumber(1)
    \/ InsertCase(1)

MedSpec == MedInit /\ [][MedNext]_vars

(***************************************************************************)
(* Observation, surgery, release                                           *)
(***************************************************************************)
MaxLogEntries == 16   \* entries of db.medicine_logs

\* a case as create_catching_record and bulk_upload_catching leave it
NoCare == [status |-> "Caught"]

CaseExists(case_id) == case_id \in 1..Len(cases)

\* db.cases.find_one({"id": case_id}), the fields written after catching
CareOf(case_id) == IF case_id \in DOMAIN care THEN care[case_id] ELSE NoCare

\* db.cases.update_one({"id": case_id}, {"$set": set})
set_case(docs, case_id, set) ==
    [id \in DOMAIN docs \cup {case_id} |->
        IF id = case_id
        THEN set @@ (IF id \in DOMAIN docs THEN docs[id] ELSE NoCare)
        ELSE docs[id]]

FreeKennel == [is_occupied |-> FALSE, current_case_id |-> NoCase]

\* db.kennels.update_one({"kennel_number": kennel_number}, {"$set": doc}):
\* nothing is written when no kennel has the number
set_kennel(docs, kennel_number, doc) ==
    [k \in DOMAIN docs |-> IF k = kennel_number THEN doc ELSE docs[k]]

CaseNotFound == [status |-> 404, detail |-> "Case not found"]
KennelNotAvailable == [status |-> 400, detail |-> "Kennel not available"]

\* add_initial_observation up to the kennel check
ObservationCheck(p, case_id, data) ==
    /\ reqs[p].pc = "idle"
    /\ IF ~CaseExists(case_id)
       THEN /\ replies' = [replies EXCEPT ![p] = CaseNotFound]
            /\ reqs' = reqs
       ELSE IF \/ data.kennel_number \notin DOMAIN kennels
               \/ kennels[data.kennel_number].is_occupied
       THEN /\ replies' = [replies EXCEPT ![p] = KennelNotAvailable]
            /\ reqs' = reqs
       ELSE /\ replies' = [replies EXCEPT ![p] = NoResponse]
            /\ reqs' = [reqs EXCEPT ![p] =
                 [pc |-> "observation_case", case_id |-> case_id, data |-> data]]
    /\ UNCHANGED <<cases, clock, tz, issued, probe>>
    /\ UNCHANGED doseVars
    /\ UNCHANGED <<care, kennels, results>>

\* add_initial_observation: db.cases.update_one
ObservationUpdateCase(p) ==
    /\ reqs[p].pc = "observation_case"
    /\ care' = set_case(care, reqs[p].case_id,
         [initial_observation |-> [kennel_number |-> reqs[p].data.kennel_number,
                                   gender |-> reqs[p].data.gender],
          status |-> "In Kennel"])
    /\ reqs' = [reqs EXCEPT ![p].pc = "observation_kennel"]
    /\ UNCHANGED <<cases, clock, tz, issued, probe>>
    /\ UNCHANGED doseVars
    /\ UNCHANGED <<kennels, results, replies>>

\* add_initial_observation: db.kennels.update_one and the answer
ObservationUpdateKennel(p) ==
    /\ reqs[p].pc = "observation_kennel"
    /\ kennels' = set_kennel(kennels, reqs[p].data.kennel_number,
         [is_occupied |-> TRUE, current_case_id |-> reqs[p].case_id])
    /\ replies' = [replies EXCEPT ![p] =
         [status |-> 200, message |-> "Initial observation added successfully"]]
    /\ reqs' = [reqs EXCEPT ![p] = Idle]
    /\ UNCHANGED <<cases, clock, tz, issued, probe>>
    /\ UNCHANGED doseVars
    /\ UNCHANGED <<care, results>>

\* the loop over MEDICINE_PROTOCOL that fills medicines_used: the dosages
\* above 0 of the drugs that db.medicines holds, by name
auto_medicines_used(table, docs, weight, gender) ==
    LET map == medicine_map(docs)
        names == {med_name \in DOMAIN table \cap DOMAIN map :
                    calculate_medicine_dosage(table, weight, med_name, gender) > 0}
    IN  [med_name \in names |->
            calculate_medicine_dosage(table, weight, med_name, gender)]

\* the same loop filling medicines_to_deduct: the dosages by medicine id
auto_medicines_to_deduct(table, docs, weight, gender) ==
    LET map == medicine_map(docs)
        used == auto_medicines_used(table, docs, weight, gender)
    IN  [med_id \in {map[med_name].id : med_name \in DOMAIN used} |->
            used[CHOOSE med_name \in DOMAIN used : map[med_name].id = med_id]]

\* db.medicines.update_one({"id": medicine_id}, {"$inc": {"current_stock":
\* -quantity}}) for every quantity above 0
deduct_stock(docs, to_deduct) ==
    [i \in 1..Len(docs) |->
        IF docs[i].id \in DOMAIN to_deduct /\ to_deduct[docs[i].id] > 0
        THEN [docs[i] EXCEPT !.current_stock = @ - to_deduct[docs[i].id]]
        ELSE docs[i]]

\* the usage entries written to db.medicine_logs, here in the order of the
\* medicine ids
usage_logs(docs, to_deduct, case_id) ==
    LET logged == SelectSeq([i \in 1..Len(docs) |-> docs[i].id],
                            LAMBDA id : id \in DOMAIN to_deduct /\ to_deduct[id] > 0)
    IN  [k \in 1..Len(logged) |->
            [medicine_id |-> logged[k], type |-> "usage",
             units_used |-> to_deduct[logged[k]], case_id |-> case_id]]

\* a body of POST /cases/{case_id}/surgery
SurgeryRequest(weight, gender, cancelled, pre_surgery_status) ==
    [weight |-> weight, gender |-> gender, cancelled |-> cancelled,
     pre_surgery_status |-> pre_surgery_status,
     medicines |-> <<>>, medicines_to_deduct |-> <<>>]

\* add_surgery_record
AddSurgeryRecord(p, case_id, data) ==
    /\ reqs[p].pc = "idle"
    /\ IF ~CaseExists(case_id)
       THEN /\ replies' = [replies EXCEPT ![p] = CaseNotFound]
            /\ UNCHANGED <<care, kennels, medicines, medicine_logs>>
       ELSE LET case == CareOf(case_id)
                weight == data_get(data.weight, 0)
                gender == IF data.gender # Missing THEN data.gender[1]
                          ELSE IF "initial_observation" \in DOMAIN case
                               THEN case.initial_observation.gender
                          ELSE NoGender
                auto == /\ weight >= KgOf(10)
                        /\ weight <= KgOf(30)
                        /\ data.pre_surgery_status # <<"Cancel Surgery">>
                        /\ data.medicines_to_deduct = <<>>
                medicines_used ==
                    IF auto THEN auto_medicines_used(protocol, medicines, weight, gender)
                    ELSE data.medicines
                medicines_to_deduct ==
                    IF auto
                    THEN auto_medicines_to_deduct(protocol, medicines, weight, gender)
                    ELSE data.medicines_to_deduct
                is_cancelled == \/ data.cancelled = <<"Yes">>
                                \/ data.pre_surgery_status = <<"Cancel Surgery">>
                pre_surgery_status ==
                    IF is_cancelled THEN "Cancel Surgery"
                    ELSE IF data.cancelled = Missing \/ data.cancelled = <<"No">>
                         THEN data_get(data.pre_surgery_status, "Fit for Surgery")
                    ELSE "Cancel Surgery"
                new_status == IF is_cancelled THEN "Surgery Cancelled"
                              ELSE "Surgery Completed"
                surgery == [pre_surgery_status |-> pre_surgery_status,
                            weight |-> weight,
                            medicines_used |-> medicines_used]
                logs == usage_logs(medicines, medicines_to_deduct, case_id)
            IN  /\ IF is_cancelled
                   THEN /\ kennels' =
                             IF "initial_observation" \in DOMAIN case
                                /\ case.initial_observation.kennel_number # NoKennel
                             THEN set_kennel(kennels,
                                     case.initial_observation.kennel_number, FreeKennel)
                             ELSE kennels
                        /\ UNCHANGED <<medicines, medicine_logs>>
                   ELSE /\ Len(medicine_logs) + Len(logs) <= MaxLogEntries
                        /\ medicines' = deduct_stock(medicines, medicines_to_deduct)
                        /\ medicine_logs' = medicine_logs \o logs
                        /\ kennels' = kennels
                /\ care' = set_case(care, case_id,
                       [surgery |-> surgery, status |-> new_status])
                /\ replies' = [replies EXCEPT ![p] =
                       [status |-> 200, message |-> "Surgery record added successfully",
                        new_status |-> new_status]]
    /\ UNCHANGED <<protocol, calc, resp, results>>
    /\ UNCHANGED caseVars

\* add_release_record
AddReleaseRecord(p, case_id) ==
    /\ reqs[p].pc = "idle"
    /\ IF ~CaseExists(case_id)
       THEN /\ replies' = [replies EXCEPT ![p] = CaseNotFound]
            /\ UNCHANGED <<care, kennels>>
       ELSE LET case == CareOf(case_id)
            IN  /\ care' = set_case(care, case_id,
                       [release |-> [released_by |-> p], status |-> "Released"])
                /\ kennels' =
                       IF "initial_observation" \in DOMAIN case
                       THEN set_kennel(kennels,
                               case.initial_observation.kennel_number, FreeKennel)
                       ELSE kennels
                /\ replies' = [replies EXCEPT ![p] =
                       [status |-> 200, message |-> "Release record added successfully"]]
    /\ UNCHANGED results
    /\ UNCHANGED doseVars
    /\ UNCHANGED caseVars

\* db.cases.find_one({"case_number": case_number}): the id of the first case
\* with the number
first_case_with(case_number) ==
    CHOOSE i \in 1..Len(cases) :
        /\ cases[i].case_number = case_number
        /\ \A j \in 1..Len(cases) : cases[j].case_number = case_number => i <= j

\* a row of an uploaded surgery sheet
SurgeryRow(case_number, gender, weight, is_cancelled) ==
    [case_number |-> case_number, gender |-> gender, weight |-> weight,
     is_cancelled |-> is_cancelled]

\* bulk_upload_surgery, one row up to the end of its validation
BulkSurgeryCheckRow(p, row) ==
    /\ reqs[p].pc = "idle"
    /\ LET failed(message) == /\ results' = RowFailed(message)
                              /\ reqs' = reqs
       IN  IF row.case_number = <<>> THEN failed(<<"Missing case number">>)
           ELSE IF ~\E i \in 1..Len(cases) : cases[i].case_number = row.case_number
           THEN failed(<<"Case", row.case_number, "not found">>)
           ELSE IF "surgery" \in DOMAIN CareOf(first_case_with(row.case_number))
           THEN failed(<<"Case", row.case_number, "already has surgery record">>)
           ELSE IF row.gender \notin {"Male", "Female"}
           THEN failed(<<"Invalid gender. Use 'Male' or 'Female'">>)
           ELSE IF row.weight < KgOf(10) \/ row.weight > KgOf(30)
           THEN failed(<<WeightError>>)
           ELSE /\ results' = results
                /\ reqs' = [reqs EXCEPT ![p] =
                     [pc |-> "bulk_surgery",
                      case_id |-> first_case_with(row.case_number),
                      case |-> CareOf(first_case_with(row.case_number)),
                      row |-> row]]
    /\ UNCHANGED <<cases, clock, tz, issued, probe>>
    /\ UNCHANGED doseVars
    /\ UNCHANGED <<care, kennels, replies>>

\* variant: a cancelled row deducts like any other
BulkSurgeryApplyRow_deducting(p) ==
    /\ reqs[p].pc = "bulk_surgery"
    /\ LET row == reqs[p].row
           medicines_used ==
               auto_medicines_used(protocol, medicines, row.weight, row.gender)
           medicines_to_deduct ==
               auto_medicines_to_deduct(protocol, medicines, row.weight, row.gender)
       IN  /\ medicines' = deduct_stock(medicines, medicines_to_deduct)
           /\ results' = RowSucceeded(medicines_used)
           /\ care' = set_case(care, reqs[p].case_id,
                  [surgery |-> [pre_surgery_status |->
                                   IF row.is_cancelled THEN "Cancel Surgery"
                                   ELSE "Fit for Surgery",
                                weight |-> row.weight,
                                medicines_used |-> medicines_used,
                                bulk_uploaded |-> TRUE],
                   status |-> IF row.is_cancelled THEN "Surgery Cancelled"
                              ELSE "Surgery Completed"])
    /\ reqs' = [reqs EXCEPT ![p] = Idle]
    /\ UNCHANGED <<cases, clock, tz, issued, probe>>
    /\ UNCHANGED <<protocol, medicine_logs, calc, resp>>
    /\ UNCHANGED <<kennels, replies>>

\* bulk_upload_surgery, the same row from the deductions to the update of the
\* case; a case without an observation gets one without a kennel
BulkSurgeryApplyRow(p) ==
    /\ reqs[p].pc = "bulk_surgery"
    /\ LET row == reqs[p].row
           medicines_used ==
               IF row.is_cancelled THEN <<>>
               ELSE auto_medicines_used(protocol, medicines, row.weight, row.gender)
           medicines_to_deduct ==
               IF row.is_cancelled THEN <<>>
               ELSE auto_medicines_to_deduct(protocol, medicines, row.weight, row.gender)
           update_data ==
               [surgery |-> [pre_surgery_status |->
                                IF row.is_cancelled THEN "Cancel Surgery"
                                ELSE "Fit for Surgery",
                             weight |-> row.weight,
                             medicines_used |-> medicines_used,
                             bulk_uploaded |-> TRUE],
                status |-> IF row.is_cancelled THEN "Surgery Cancelled"
                           ELSE "Surgery Completed"]
       IN  /\ medicines' = deduct_stock(medicines, medicines_to_deduct)
           /\ results' = RowSucceeded(medicines_used)
           /\ care' = set_case(care, reqs[p].case_id,
                  IF "initial_observation" \in DOMAIN reqs[p].case
                  THEN update_data
                  ELSE [initial_observation |-> [kennel_number |-> NoKennel,
                                                 gender |-> row.gender]]
                       @@ update_data)
    /\ reqs' = [reqs EXCEPT ![p] = Idle]
    /\ UNCHANGED <<cases, clock, tz, issued, probe>>
    /\ UNCHANGED <<protocol, medicine_logs, calc, resp>>
    /\ UNCHANGED <<kennels, replies>>

(***************************************************************************)
(* The ward: observation, surgery, release and stock over stored cases     *)
(***************************************************************************)
\* the cases that MaxCases interactive creations in December leave
ward_cases ==
    [i \in 1..MaxCases |->
        [case_number |-> generate_case_number(org_shortcode, project_code, 12, i, TypeC),
         created_at |-> created_at_of(StartInstant),
         bulk_uploaded |-> FALSE]]

WardInit ==
    /\ OpsQuiet
    /\ DoseQuiet
    /\ cases = ward_cases
    /\ clock = StartInstant
    /\ tz = 0
    /\ reqs = [p \in Procs |-> Idle]
    /\ issued = {ward_cases[i].case_number : i \in 1..MaxCases}
    /\ probe = ProbeOff

\* an id that no stored case has
UnknownCaseId == MaxCases + 1

\* the kennels that requests name: the kennels and one that does not exist
KennelNumbers == 1..(NumKennels + 1)

Observations == {[kennel_number |-> k, gender |-> "Female"] : k \in KennelNumbers}

SurgeryRequests ==
    {SurgeryRequest(w, Missing, c, s) :
        w \in {Missing, <<KgOf(17)>>},
        c \in {Missing, <<"Yes">>},
        s \in {Missing, <<"Cancel Surgery">>}}

SurgeryRows ==
    {SurgeryRow(n, "Male", w, c) :
        n \in {ward_cases[1].case_number, <<"N", "O", "N", "E">>},
        w \in {KgOf(17), KgOf(31)},
        c \in BOOLEAN}

(***************************************************************************)
(* Surgery and stock, requests served one after another                    *)
(***************************************************************************)
StockNext ==
    \/ \E id \in {1, UnknownCaseId}, data \in SurgeryRequests :
            AddSurgeryRecord(1, id, data)
    \/ \E row \in SurgeryRows : BulkSurgeryCheckRow(1, row)
    \/ BulkSurgeryApplyRow(1)
    \/ \E id \in StockIds, quantity \in StockQuantities : AddMedicineStock(id, quantity)

StockSpec == WardInit /\ [][StockNext]_vars

(***************************************************************************)
(* Kennels, requests served one after another                              *)
(***************************************************************************)
\* surgery requests without a weight: a surgery done and a surgery cancelled
KennelSurgeryRequests ==
    {SurgeryRequest(Missing, Missing, c, Missing) : c \in {Missing, <<"Yes">>}}

KennelNext ==
    \/ \E id \in 1..UnknownCaseId, data \in Observations : ObservationCheck(1, id, data)
    \/ ObservationUpdateCase(1)
    \/ ObservationUpdateKennel(1)
    \/ \E id \in 1..MaxCases, data \in KennelSurgeryRequests :
            AddSurgeryRecord(1, id, data)
    \/ \E id \in 1..UnknownCaseId : AddReleaseRecord(1, id)

KennelSpec == WardInit /\ [][KennelNext]_vars

(***************************************************************************)
(* Overlapping requests: observations and uploaded surgery rows            *)
(***************************************************************************)
RaceRows ==
    {SurgeryRow(n, "Male", KgOf(17), FALSE) :
        n \in {ward_cases[1].case_number, <<"N", "O", "N", "E">>}}

RaceNext ==
    \/ \E p \in Procs, id \in 1..MaxCases, data \in Observations :
            ObservationCheck(p, id, data)
    \/ \E p \in Procs : ObservationUpdateCase(p)
    \/ \E p \in Procs : ObservationUpdateKennel(p)
    \/ \E p \in Procs, row \in RaceRows : BulkSurgeryCheckRow(p, row)
    \/ \E p \in Procs : BulkSurgeryApplyRow(p)

RaceSpec == WardInit /\ [][RaceNext]_vars

(***************************************************************************)
(* Requests served one after another: interactive creation and uploaded    *)
(* rows never overlap                                                      *)
(***************************************************************************)
\* the cells of the sheet: the numbers above, an empty cell, and the first
\* numbers that interactive creation gives out in December and in January
SeqRows ==
    BulkNumbers \cup
        {<<>>,
         generate_case_number(org_shortcode, project_code, 12, 1, TypeC),
         generate_case_number(org_shortcode, project_code, 1, 1, TypeC)}

SeqNext ==
    \/ AllocateCaseNumber(1)
    \/ InsertCase(1)
    \/ \E number \in SeqRows : BulkCheckRow(1, number)
    \/ BulkInsertRow(1)
    \/ Tick

SeqSpec == Init /\ [][SeqNext]_vars

\* the same requests on a server whose local clock is UTC, the clock moving
\* only while a number is allocated
UploadNext ==
    \/ AllocateCaseNumber(1)
    \/ InsertCase(1)
    \/ \E number \in SeqRows : BulkCheckRow(1, number)
    \/ BulkInsertRow(1)

UploadSpec == MedInit /\ [][UploadNext]_vars

(***************************************************************************)
(* Definitions the properties share                                        *)
(***************************************************************************)
Jan == JsTal \o <<"J", "A", "N", "-">>

\* every reading a call that starts now can take
ReadingsNow ==
    Readings(clock, clock) \cup
        (IF InWindow(NextInstant(clock)) THEN Readings(clock, NextInstant(clock)) ELSE {})

\* what the query of a call with these readings returns
FoundBy(reads, case_type) ==
    find_cases(cases, case_pattern(org_shortcode, project_code, reads.abbr.m, case_type),
               reads.year.y, reads.month.m)

\* the sequences the allocator parses out of a query result
ParsedOf(found) ==
    UNION {LET parsed == parse_sequence(found[i].case_number)
           IN  {parsed[k] : k \in 1..Len(parsed)} : i \in 1..Len(found)}

NumbersOf(found) == {found[i].case_number : i \in 1..Len(found)}

\* the allocation of a call that runs now, over the store db_cases
AllocNow(db_cases, case_type) ==
    get_next_case_number(db_cases, ReadsAt(clock), org_shortcode, project_code, case_type)

\* request p's call of get_next_case_number returns in this step
Allocates(p) == reqs[p].pc = "idle" /\ reqs'[p].pc = "insert"

(***************************************************************************)
(* C1: for every interleaving of concurrent create_catching_record         *)
(* requests of one organization, project and month, no two persisted       *)
(* cases carry the same case_number.  Stated for a server whose local      *)
(* clock is UTC and for the cases created interactively within one month,  *)
(* where only an interleaving of two requests can produce a duplicate.     *)
(***************************************************************************)
C1_NoDuplicateUnderConcurrency ==
    tz = 0 =>
        \A i, j \in 1..Len(cases) :
            (/\ i # j
             /\ ~cases[i].bulk_uploaded
             /\ ~cases[j].bulk_uploaded
             /\ cases[i].created_at = cases[j].created_at)
                => cases[i].case_number # cases[j].case_number

(***************************************************************************)
(* C2: a case number that was inserted is never returned again by a later  *)
(* allocation, even if the case was deleted in between.  Stated for a      *)
(* server whose local clock is UTC and for the first year, where only a    *)
(* deletion can bring a number back.                                       *)
(***************************************************************************)
C2_NeverReissued ==
    [][\A p \in Procs :
          (Allocates(p) /\ tz = 0 /\ clock'.y = StartInstant.y)
              => reqs'[p].case_number \notin issued]_vars

(***************************************************************************)
(* C3: over the documents its query returns, the allocator's sequence is   *)
(* 1 when none parses and otherwise one more than the greatest parsed      *)
(* sequence, gaps below it staying unfilled: {C0001, C0003} gives C0004.   *)
(***************************************************************************)
C3_MaxPlusOne ==
    \A reads \in ReadingsNow :
        LET found == FoundBy(reads, TypeC)
            parsed == ParsedOf(found)
            sequence == next_sequence(found)
            number == get_next_case_number(cases, reads, org_shortcode, project_code, TypeC)
        IN  /\ parsed = {} => sequence = 1
            /\ parsed # {} => (sequence - 1) \in parsed
            /\ \A v \in parsed : v < sequence
            /\ number = case_pattern(org_shortcode, project_code, reads.month.m, TypeC)
                            \o Format04d(sequence)
            /\ (parsed = {1, 3} /\ reads.month.m = 1)
                   => number = Jan \o <<"C", "0", "0", "0", "4">>
            /\ (found = <<>> /\ reads.month.m = 1)
                   => number = Jan \o <<"C", "0", "0", "0", "1">>

C3_Witness ==
    /\ reqs[1].pc = "insert"
    /\ reqs[1].case_number = Jan \o <<"C", "0", "0", "0", "4">>
    /\ NumbersOf(FoundBy(ReadsAt(clock), TypeC))
           = {Jan \o <<"C", "0", "0", "0", "1">>, Jan \o <<"C", "0", "0", "0", "3">>}

(***************************************************************************)
(* C4: sequences never carry across months.  While every stored case was   *)
(* created before the current local month began, an allocation returns     *)
(* sequence 0001 under the current month's prefix, whatever numbers the    *)
(* store holds; and the cases whose number carries another month's prefix  *)
(* never change the number allocated.                                      *)
(***************************************************************************)
MonthPrefix(m) == org_shortcode \o <<"-">> \o project_code \o <<"-">> \o month_abbr(m) \o <<"-">>

PrefixesC == {MonthPrefix(m) \o TypeC : m \in 1..12}
PrefixesS == {MonthPrefix(m) \o TypeS : m \in 1..12}

\* the store without the numbers that start with one of the prefixes
Without(prefixes) ==
    SelectSeq(cases, LAMBDA c : \A prefix \in prefixes : ~HasPrefix(c.case_number, prefix))

C5_TypeIsolation ==
    /\ AllocNow(cases, TypeC) = AllocNow(Without(PrefixesS), TypeC)
    /\ AllocNow(cases, TypeS) = AllocNow(Without(PrefixesC), TypeS)

\* both types are in the query window and the C allocation went past the S one
C5_Witness ==
    /\ LocalNow(clock).m = 1
    /\ reqs[1].pc = "insert"
    /\ reqs[1].case_number = Jan \o <<"C", "0", "0", "0", "4">>
    /\ FoundBy(ReadsAt(clock), TypeS) # <<>>
    /\ FoundBy(ReadsAt(clock), TypeC) # <<>>
    /\ AllocNow(cases, TypeS) = Jan \o <<"S", "0", "0", "0", "3">>

(***************************************************************************)
(* C6: a stored number that matches the prefix but whose text after the    *)
(* record-type letter is not a plain run of digits never makes the         *)
(* allocation fail and contributes nothing to the maximum.                 *)
(***************************************************************************)
PlainDigits(s) == s # <<>> /\ \A i \in 1..Len(s) : IsDigit(s[i])

Malformed(case_number, pattern) ==
    /\ HasPrefix(case_number, pattern)
    /\ ~PlainDigits(Tail_n(case_number, Len(pattern)))

C6_MalformedIgnored ==
    LET pattern == MonthPrefix(LocalNow(clock).m) \o TypeC
        wellformed == SelectSeq(cases, LAMBDA c : ~Malformed(c.case_number, pattern))
    IN  AllocNow(cases, TypeC) = AllocNow(wellformed, TypeC)

(***************************************************************************)
(* C7: a sequence of 10000 or more is formatted with all of its digits and *)
(* parsed back by the allocator: after C9999 come C10000 and C10001.       *)
(***************************************************************************)
C7_WidensPastFourDigits ==
    \A reads \in ReadingsNow :
        LET sequence == next_sequence(FoundBy(reads, TypeC))
            number == get_next_case_number(cases, reads, org_shortcode, project_code, TypeC)
            suffix == Tail_n(number, Len(MonthPrefix(reads.month.m)) + 1)
        IN  sequence >= 10000 =>
                /\ parse_sequence(number) = <<sequence>>
                /\ Len(suffix) = 5
                /\ sequence = 10000 => suffix = <<"1", "0", "0", "0", "0">>
                /\ sequence = 10001 => suffix = <<"1", "0", "0", "0", "1">>

C7_Witness ==
    /\ reqs[1].pc = "insert"
    /\ reqs[1].case_number = Jan \o <<"C", "1", "0", "0", "0", "1">>
    /\ \E i \in 1..Len(cases) : cases[i].case_number = Jan \o <<"C", "9", "9", "9", "9">>
    /\ \E i \in 1..Len(cases) :
           /\ cases[i].case_number = Jan \o <<"C", "1", "0", "0", "0", "0">>
           /\ ~cases[i].bulk_uploaded

(***************************************************************************)
(* C8: formatting a sequence and parsing the result the way the allocator  *)
(* does recovers the sequence, for every sequence from 1 to 9999, every    *)
(* month and every record type.                                            *)
(***************************************************************************)
C8_RoundTrip ==
    (probe.pc = "parsed" /\ probe.sequence <= 9999) => probe.parsed = <<probe.sequence>>

C8_Witness ==
    /\ probe.pc = "parsed"
    /\ probe.sequence = 9999
    /\ probe.month = 12
    /\ probe.case_type = TypeS
    /\ probe.text = JsTal \o <<"D", "E", "C", "-", "S", "9", "9", "9", "9">>
    /\ probe.parsed = <<9999>>

(***************************************************************************)
(* C9: get_next_case_number only reads the store: a call inserts, updates  *)
(* and deletes nothing, so a second call with no insert in between (and    *)
(* within the same instant) returns the same case number.                  *)
(***************************************************************************)
C9_AllocatorOnlyReads ==
    [][\A p \in Procs :
          Allocates(p) =>
              /\ cases' = cases
              /\ issued' = issued
              /\ clock' = clock =>
                     reqs'[p].case_number
                         = get_next_case_number(cases', ReadsAt(clock'), org_shortcode,
                                                project_code, TypeC)]_vars

C9_Witness ==
    /\ reqs[1].pc = "insert"
    /\ Len(cases) = MaxCases
    /\ reqs[1].case_number = AllocNow(cases, TypeC)
    /\ reqs[1].case_number \notin issued

(***************************************************************************)
(* C10: a case created by bulk upload receives the case number that the    *)
(* allocator returns for the current prefix, as an interactively created   *)
(* case does.                                                              *)
(***************************************************************************)
C10_BulkUsesAllocator ==
    [][\A p \in Procs :
          (reqs[p].pc = "bulk_insert" /\ reqs'[p].pc = "idle")
              => cases'[Len(cases')].case_number = AllocNow(cases, TypeC)]_vars

(***************************************************************************)
(* Definitions the dosage properties share                                 *)
(***************************************************************************)
\* the dosage call has returned
Dosed == calc.pc = "done"

\* the call was about a name of the table, and this is its rule
Known == calc.medicine_name \in DOMAIN protocol
RuleUsed == protocol[calc.medicine_name]

\* the weight is in the supported range, 10 to 30 kg
Supported == calc.weight >= KgOf(10) /\ calc.weight <= KgOf(30)

Abs(x) == IF x >= 0 THEN x ELSE 0 - x

\* C11: a drug name that is not in the protocol table yields dose 0 for
\* every weight and gender
C11_UnknownDrugIsZero ==
    (Dosed /\ ~Known) => calc.dose = 0

C11_Witness ==
    /\ Dosed
    /\ calc.medicine_name = Unobtainium
    /\ calc.weight = KgOf(15)
    /\ calc.gender = "Male"
    /\ calc.dose = 0

\* C12: a female_only rule yields dose 0 whenever the gender is not Female,
\* at every weight; Vicryl 2 at 20 kg is 0.2 for a Female and 0 for a Male
C12_FemaleOnly ==
    /\ (Dosed /\ Known /\ RuleUsed.female_only /\ calc.gender # "Female")
          => calc.dose = 0
    /\ (Dosed /\ calc.medicine_name = "Vicryl 2" /\ calc.weight = KgOf(20))
          => calc.dose = (IF calc.gender = "Female" THEN Num(0, 20) ELSE 0)

C12_Witness ==
    /\ Dosed
    /\ calc.medicine_name = "Vicryl 2"
    /\ calc.weight = KgOf(20)
    /\ calc.gender = NoGender
    /\ calc.dose = 0

\* C13: a Fixed rule returns its base_dose for every weight and gender; the
\* Anti-Rabies Vaccine dose is always 1
C13_FixedIgnoresWeight ==
    /\ (Dosed /\ Known /\ RuleUsed.fixed) => calc.dose = RuleUsed.base_dose
    /\ (Dosed /\ calc.medicine_name = "Anti-Rabies Vaccine") => calc.dose = Num(1, 0)

C13_Witness ==
    /\ Dosed
    /\ calc.medicine_name = "Anti-Rabies Vaccine"
    /\ calc.weight = KgOf(30) + Kg(1)
    /\ calc.gender = "Female"
    /\ calc.dose = Num(1, 0)

\* C14: for every weight w from 10 to 30 the Xylazine dose is w / 10
C14_XylazineIsTenth ==
    (Dosed /\ calc.medicine_name = "Xylazine" /\ Supported)
        => 10 * calc.dose = calc.weight

C14_Witness ==
    /\ Dosed
    /\ calc.medicine_name = "Xylazine"
    /\ calc.weight = KgOf(15)
    /\ calc.dose = Num(1, 50)

\* C15: the Melonex dose is min(0.8 * w / 10, 1): never above 1, and 1 at
\* 25 kg
C15_MelonexCapped ==
    (Dosed /\ calc.medicine_name = "Melonex")
        => /\ 100 * calc.dose = Min(8 * calc.weight, 100 * Num(1, 0))
           /\ calc.dose <= Num(1, 0)
           /\ calc.weight = KgOf(25) => calc.dose = Num(1, 0)

C15_Witness ==
    /\ Dosed
    /\ calc.medicine_name = "Melonex"
    /\ calc.weight = KgOf(25)
    /\ calc.dose = Num(1, 0)

\* C16: for every weight from 10 to 30 the Intacef Tazo dose is a multiple
\* of 50 at most 25 away from 400 * w / 10, and 17 kg gives 700
C16_IntacefNearestFifty ==
    (Dosed /\ calc.medicine_name = "Intacef Tazo" /\ Supported)
        => /\ calc.dose % Num(50, 0) = 0
           /\ Abs(calc.dose - 40 * calc.weight) <= Num(25, 0)
           /\ calc.weight = KgOf(17) => calc.dose = Num(700, 0)

C16_Witness ==
    /\ Dosed
    /\ calc.medicine_name = "Intacef Tazo"
    /\ calc.weight = KgOf(17)
    /\ calc.dose = Num(700, 0)

\* C17: every rule of the protocol table has exactly one dosing mode, Fixed
\* or PerTenKg, whether or not it is female_only
C17_ExactlyOneMode ==
    (Dosed /\ Known) => (RuleUsed.fixed # RuleUsed.per_10kg)

\* C19: for every drug name, every gender and every weight from 10 to 30 kg
\* the dose is not negative
C19_DoseNotNegative ==
    (Dosed /\ Supported) => calc.dose >= 0

C19_Witness ==
    /\ Dosed
    /\ Supported
    /\ calc.medicine_name = "Vicryl 2"
    /\ calc.gender = "Male"
    /\ calc.dose = 0

\* the request that the handler is about to answer
RequestWeight == data_get(resp.weight, 0)
RequestGender == data_get(resp.gender, "Male")

\* C18: calculate_medicine_dosage is a pure function: no operation changes
\* the protocol table, a call changes neither the table nor the medicine
\* stock nor the case records, and every dose returned is the dose that the
\* table as loaded gives for (weight, drug, gender), so that two calls with
\* the same inputs agree whatever ran in between
C18_DosageIsPure ==
    [][/\ protocol' = protocol
       /\ CalculateSurgeryMedicines =>
            /\ medicines' = medicines
            /\ medicine_logs' = medicine_logs
            /\ cases' = cases
            /\ resp'.status = 200 =>
                 \A name \in DOMAIN resp'.medicines :
                    resp'.medicines[name].dosage =
                        calculate_medicine_dosage(MEDICINE_PROTOCOL, RequestWeight,
                                                  name, RequestGender)]_vars

\* a second answer for 17 kg, with stock added and a case stored in between
C18_Witness ==
    /\ resp.status = 200
    /\ resp.weight = KgOf(17)
    /\ resp.medicines["Xylazine"].dosage = Num(1, 70)
    /\ resp.medicines["Xylazine"].current_stock > 0
    /\ Len(cases) > 0
    /\ protocol = MEDICINE_PROTOCOL

\* C20: calculate-medicines answers a weight below 10 or above 30 (a missing
\* weight counts as 0) with the 400 error and no dosages, accepts 10 and 30,
\* and leaves the medicine stock unchanged either way
C20_WeightRange ==
    [][CalculateSurgeryMedicines =>
        /\ (RequestWeight < KgOf(10) \/ RequestWeight > KgOf(30))
              => /\ resp'.status = 400
                 /\ resp'.detail = WeightError
                 /\ "medicines" \notin DOMAIN resp'
        /\ (RequestWeight >= KgOf(10) /\ RequestWeight <= KgOf(30))
              => /\ resp'.status = 200
                 /\ "medicines" \in DOMAIN resp'
        /\ medicines' = medicines]_vars

C20_Witness ==
    /\ resp.status = 400
    /\ resp.detail = WeightError
    /\ \E i \in 1..Len(medicines) : medicines[i].current_stock > 0

(***************************************************************************)
(* Rounding ties                                                           *)
(***************************************************************************)
\* the protocol drugs with a rounding flag
RoundingDrugs ==
    {name \in DOMAIN MEDICINE_PROTOCOL :
        LET rule == MEDICINE_PROTOCOL[name]
        IN  rule.round_half \/ rule.round_50 \/ rule.round_5}

\* a whole number of kilograms from 10 to 30
WholeKg(weight) == \E k \in 10..30 : weight = KgOf(k)

\* what the call in calc hands to round()
CalcOperand ==
    LET rule == protocol[calc.medicine_name]
    IN  round_operand(apply_max(per_10kg_dose(rule.base_dose, calc.weight), rule.max),
                      rule)

\* n/d lies exactly halfway between two integers
IsTie(v) == 2 * (v.n % v.d) = v.d

\* n/d rounded to the nearest integer, a tie going up
round_half_up(n, d) == (2 * n + d) \div (2 * d)

\* C26: for every whole weight from 10 to 30 kg and every protocol drug with
\* a rounding flag, the value handed to round() is never exactly halfway
\* between two integers, and the dose returned is the dose that rounding
\* ties upwards gives
C26_NoTieAtWholeWeights ==
    (/\ calc.pc = "done"
     /\ WholeKg(calc.weight)
     /\ calc.medicine_name \in RoundingDrugs
     /\ ~(protocol[calc.medicine_name].female_only /\ calc.gender # "Female"))
        => /\ ~IsTie(CalcOperand)
           /\ calc.dose = round_half_up(CalcOperand.n, CalcOperand.d) * CalcOperand.step

\* Intacef Tazo at 17 kg: 680 / 50 = 13.6 is no tie and gives 700 mg
C26_Witness ==
    /\ calc.pc = "done"
    /\ calc.weight = KgOf(17)
    /\ calc.medicine_name = "Intacef Tazo"
    /\ CalcOperand.n * 10 = 136 * CalcOperand.d
    /\ calc.dose = Num(700, 0)

(***************************************************************************)
(* Bulk upload of catching rows, the month boundary, the year              *)
(***************************************************************************)
\* no two stored cases share a case_number
NoSharedNumber(db_cases) ==
    \A i, j \in 1..Len(db_cases) :
        i # j => db_cases[i].case_number # db_cases[j].case_number

Stored(number) == \E i \in 1..Len(cases) : cases[i].case_number = number

\* C22: a bulk-upload catching row whose case number a stored case already
\* has (from an earlier upload, an earlier row, or interactive creation) is
\* counted as failed with the 'already exists' error and creates no case, now
\* or later; so the rows of uploads that do not overlap never add a shared
\* case_number to a store that had none
C22_DuplicateRowFails ==
    [][/\ \A number \in SeqRows \ {<<>>} :
            (BulkCheckRow(1, number) /\ Stored(number))
                => /\ results'.failed = 1
                   /\ results'.success = 0
                   /\ results'.errors = <<(<<"Case", number, "already exists">>)>>
                   /\ cases' = cases
                   /\ reqs'[1] = Idle
       /\ ((\E number \in SeqRows : BulkCheckRow(1, number)) \/ BulkInsertRow(1))
            => (NoSharedNumber(cases) => NoSharedNumber(cases'))]_vars

\* a row failed as 'already exists' against a case created interactively,
\* with a case of an earlier row in the store
C22_Witness ==
    /\ results.failed = 1
    /\ \E i, j \in 1..Len(cases) :
          /\ results.errors = <<(<<"Case", cases[i].case_number, "already exists">>)>>
          /\ ~cases[i].bulk_uploaded
          /\ cases[j].bulk_uploaded
    /\ reqs[1] = Idle

\* C24: with requests served one after another, two create_catching_record
\* calls never store the same case_number, also when the server's local date
\* and the UTC created_at written on the case lie on opposite sides of a
\* month boundary.  Stated for two cases created interactively in the same
\* UTC month of the same year
C24_NoSequentialDuplicate ==
    \A i, j \in 1..Len(cases) :
        (/\ i # j
         /\ ~cases[i].bulk_uploaded
         /\ ~cases[j].bulk_uploaded
         /\ cases[i].created_at = cases[j].created_at)
            => cases[i].case_number # cases[j].case_number

\* C25: an allocation never returns a case_number that a case created in the
\* same calendar month of an earlier year holds
C25_NotTheNumberOfAnEarlierYear ==
    [][Allocates(1) =>
         \A i \in 1..Len(cases) :
            (/\ cases[i].created_at.m = clock'.m
             /\ cases[i].created_at.y < clock'.y)
                => cases[i].case_number # reqs'[1].case_number]_vars

(***************************************************************************)
(* Surgery, stock and kennels                                              *)
(***************************************************************************)
\* no medicine's current_stock differs between this state and the next
StockUnchanged ==
    \A i \in 1..Len(medicines) :
        medicines'[i].current_stock = medicines[i].current_stock

\* the request asks for a cancelled surgery
CancelRequest(data) ==
    data.cancelled = <<"Yes">> \/ data.pre_surgery_status = <<"Cancel Surgery">>

\* C21: recording a cancelled surgery (an uploaded row marked cancelled, or
\* a request with pre_surgery_status 'Cancel Surgery' or cancelled 'Yes')
\* leaves every medicine's current_stock unchanged and reports no deduction:
\* the row adds nothing to medicines_deducted, the request writes no usage
\* entry to db.medicine_logs
C21_CancelledKeepsStock ==
    [][/\ \A data \in SurgeryRequests :
            (AddSurgeryRecord(1, 1, data) /\ CancelRequest(data))
                => /\ StockUnchanged
                   /\ medicine_logs' = medicine_logs
                   /\ care'[1].status = "Surgery Cancelled"
       /\ (BulkSurgeryApplyRow(1) /\ reqs[1].row.is_cancelled)
            => /\ StockUnchanged
               /\ medicine_logs' = medicine_logs
               /\ results'.success = 1
               /\ results'.medicines_deducted = <<>>
               /\ care'[reqs[1].case_id].status = "Surgery Cancelled"]_vars

\* a cancelled row went through and a cancelling request was answered,
\* with Xylazine in stock
C21_Witness ==
    /\ results = RowSucceeded(<<>>)
    /\ replies[1].status = 200
    /\ replies[1].new_status = "Surgery Cancelled"
    /\ 1 \in DOMAIN care
    /\ care[1].status = "Surgery Cancelled"
    /\ medicines[2].current_stock > 0

\* C23: bulk surgery upload records surgery at most once per case: a row
\* for a case number that is not stored, or for a case with a surgery
\* record, is counted as failed and changes neither the cases nor the stock,
\* and no row writes a surgery onto a case that has one
C23_SurgeryOncePerCase ==
    [][\A p \in Procs :
        /\ \A row \in RaceRows :
              (/\ BulkSurgeryCheckRow(p, row)
               /\ \/ ~Stored(row.case_number)
                  \/ "surgery" \in DOMAIN CareOf(first_case_with(row.case_number)))
                 => /\ results'.failed = 1
                    /\ results'.success = 0
                    /\ care' = care
                    /\ medicines' = medicines
                    /\ reqs'[p] = Idle
        /\ BulkSurgeryApplyRow(p)
              => "surgery" \notin DOMAIN CareOf(reqs[p].case_id)]_vars

\* the request computes the medicines itself
AutoCalculated(data) ==
    /\ data_get(data.weight, 0) >= KgOf(10)
    /\ data_get(data.weight, 0) <= KgOf(30)
    /\ data.pre_surgery_status # <<"Cancel Surgery">>
    /\ data.medicines_to_deduct = <<>>

\* C27: for every surgery that add_surgery_record records with
\* auto-calculated medicines, surgery.medicines_used lists a drug with an
\* amount exactly when the stock of that drug went down by that amount
C27_UsedIsDeducted ==
    [][\A data \in SurgeryRequests :
          (AddSurgeryRecord(1, 1, data) /\ AutoCalculated(data))
            => LET used == care'[1].surgery.medicines_used
               IN  \A i \in 1..Len(medicines) :
                      medicines[i].current_stock - medicines'[i].current_stock =
                          IF medicines[i].name \in DOMAIN used
                          THEN used[medicines[i].name]
                          ELSE 0]_vars

\* request p is past the kennel check of add_initial_observation for kennel k
HoldsKennel(p, k) ==
    /\ reqs[p].pc \in {"observation_case", "observation_kennel"}
    /\ reqs[p].data.kennel_number = k

\* the requests of two cases are past the kennel check for one kennel: both
\* will succeed
TwoHoldOneKennel ==
    \E p, q \in Procs, k \in KennelNumbers :
        /\ HoldsKennel(p, k)
        /\ HoldsKennel(q, k)
        /\ reqs[p].case_id # reqs[q].case_id

\* C28: add_initial_observation on an occupied or non-existent kennel fails
\* with 'Kennel not available' and changes neither the case nor the kennel,
\* and no interleaving lets two requests for one free kennel both succeed
C28_OneCasePerKennel ==
    [][/\ \A p \in Procs, id \in 1..MaxCases, data \in Observations :
            (/\ ObservationCheck(p, id, data)
             /\ \/ data.kennel_number \notin DOMAIN kennels
                \/ kennels[data.kennel_number].is_occupied)
                => /\ replies'[p] = KennelNotAvailable
                   /\ care' = care
                   /\ kennels' = kennels
                   /\ reqs'[p] = Idle
       /\ ~TwoHoldOneKennel']_vars

\* case_id's surgery or release is recorded in this step
SurgeryOrRelease(case_id) ==
    \/ AddReleaseRecord(1, case_id)
    \/ \E data \in KennelSurgeryRequests : AddSurgeryRecord(1, case_id, data)

\* C29: releasing a case or cancelling its surgery frees only a kennel that
\* this case occupies: no such operation on case A marks as free a kennel
\* whose current_case_id is another case B
C29_FreesOnlyOwnKennel ==
    [][\A a \in 1..MaxCases :
          SurgeryOrRelease(a)
            => \A k \in DOMAIN kennels :
                  (/\ kennels[k].is_occupied
                   /\ kennels[k].current_case_id # a)
                      => kennels'[k] = kennels[k]]_vars

\* C30: the current_stock of every medicine stays at or above 0 after any
\* sequence of stock additions and surgery recordings
C30_StockNotNegative ==
    \A i \in 1..Len(medicines) : medicines[i].current_stock >= 0

====
